---- MODULE Spec2Model ----
(***************************************************************************)
(* Model of the linkAIin delivery pipeline: the HTTP handler               *)
(* linkedin_ai_poster (src/main.py), the email transport send_email        *)
(* (src/utils/email/email_send.py), the image stage generate_post_image    *)
(* (src/openai_utils.py) and the LinkedIn adapter post_to_linkedin with     *)
(* LinkedInAPI (src/main.py, src/api/linkedin_api.py), and the stage        *)
(* functions search_web_content, generate_linkedin_post and                *)
(* analyze_engagement_potential (src/openai_utils.py), which are also      *)
(* entered directly.                                                       *)
(*                                                                         *)
(* Python values are modelled as strings: a JSON field that is not in the  *)
(* request body is Absent, Python None is PyNone, the booleans are "true"  *)
(* and "false", and "" is the empty string.  Remote collaborators (agents, *)
(* image API, HTTP downloads, LinkedIn REST, SMTP) answer                  *)
(* nondeterministically; every answer is drawn with \E in the action that  *)
(* makes the call.                                                         *)
(***************************************************************************)
EXTENDS Integers, Sequences, FiniteSets, TLC

VARIABLES
    entry,   \* which function of the repository the current invocation runs
    pc,      \* position of the current invocation
    req,     \* the inbound request (method, body, JSON fields) or call arguments
    loc,     \* local variables of linkedin_ai_poster
    fx,      \* remote calls and side effects made by the current invocation
    resp,    \* the (envelope, status) pair returned by the handler
    ret,     \* return value / raised exception of a directly called function
    env,     \* os.environ["OPENAI_API_KEY"], process-wide
    nreq     \* number of invocations started in this process

vars == <<entry, pc, req, loc, fx, resp, ret, env, nreq>>

(***************************************************************************)
(* Bounds of the model.                                                    *)
(***************************************************************************)
\* invocations handled one after another by one process
MaxRequests == 2

\* the compose agent overshoots default_max_length by at most this much
MaxOvershoot == 2

\* longest text given to analyze_engagement_potential, in characters
MaxTextLen == 4

\* size of the message list of an image agent run: its lines plus its
\* messages without content
MaxScanned == 3

(***************************************************************************)
(* Python / JSON values.                                                   *)
(***************************************************************************)
Absent == "<absent>"
PyNone == "<None>"
Unbound == "<unbound>"

\* Python truthiness of the modelled values (bool(v)).
Truthy(v) == v \notin {Absent, PyNone, "", "false"}

\* dict.get(k, d)
GetOr(json, k, d) == IF json[k] = Absent THEN d ELSE json[k]

\* dict.get(k)
Get(json, k) == GetOr(json, k, PyNone)

\* str.startswith("http") on the image values of the model
ImgUrl == "http://img/1.png"
ToolErrorText == "Error generating image: boom"
AgentText == "Not a URL"
StartsWithHttp(u) == u = ImgUrl

(***************************************************************************)
(* Inputs.                                                                 *)
(***************************************************************************)
Flags == {Absent, "false", "true"}
Keys == {Absent, "", "sk-A"}
Topics == {Absent, "", "AI"}
Tokens == {Absent, "", "tok"}
Passwords == {Absent, "", "pw"}
Emails == {Absent, "", "a@b.com"}
Methods == {"POST", "GET"}

EmptyJson ==
    [openai_api_key |-> Absent, topic |-> Absent, generate_image |-> Absent,
     post_to_linkedin |-> Absent, send_email |-> Absent,
     linkedin_token |-> Absent, email_app_password |-> Absent,
     destination_email |-> Absent]

\* request bodies: the empty body (get_json() falsy) or a JSON object
Bodies ==
    [openai_api_key : Keys, topic : Topics, generate_image : Flags \ {"false"},
     post_to_linkedin : Flags, send_email : Flags,
     linkedin_token : Tokens, email_app_password : Passwords,
     destination_email : Emails]

\* get_json_raises: request.get_json() raises (a body that is not JSON)
HandlerRequests ==
    { [method |-> m, has_json |-> FALSE, get_json_raises |-> b,
       json |-> EmptyJson] : m \in Methods, b \in BOOLEAN }
    \cup { [method |-> m, has_json |-> TRUE, get_json_raises |-> FALSE,
            json |-> j] : m \in Methods, j \in Bodies \ {EmptyJson} }

(***************************************************************************)
(* Envelopes.                                                              *)
(***************************************************************************)
ErrMethod == "Only POST requests are supported"
ErrNoJson == "Request body must contain valid JSON"
ErrBadRequest == "An unexpected error occurred: 400 Bad Request"
ErrMissingKey == "Missing OpenAI API key"
ErrMissingTopic == "Missing post topic"
ErrConflict ==
    "Cannot both post to LinkedIn and send email - please choose one delivery method"
ErrMissingToken == "Missing LinkedIn token for LinkedIn posting"
ErrMissingPassword == "Missing email app password for email delivery"
ErrMissingDestination == "Missing destination email for email delivery"
ErrSearch ==
    "An unexpected error occurred: Failed to search and analyze web content"
ErrCompose == "Failed to generate LinkedIn post"
ErrImage == "An unexpected error occurred: Failed to generate post image"
ErrNotCallable == "An unexpected error occurred: 'bool' object is not callable"
ErrEmail == "Failed to send email: SMTPServerDisconnected"

NoResponse ==
    [status |-> 0, success |-> FALSE, error |-> PyNone,
     delivery_method |-> PyNone, post_url |-> PyNone, email_sent |-> PyNone,
     destination_email |-> PyNone, post_content |-> PyNone,
     image_url |-> PyNone, engagement_analysis |-> <<>>]

\* mutant: the failure envelope carries no error string
FailureWithoutError(status, error) == [NoResponse EXCEPT !.status = status]

Failure(status, error) ==
    [NoResponse EXCEPT !.status = status, !.error = error]

NoLocals ==
    [post_to_linkedin |-> Unbound, send_email_flag |-> Unbound,
     linkedin_token |-> Unbound, email_app_password |-> Unbound,
     destination_email |-> Unbound, generate_image |-> Unbound,
     search_results |-> Unbound, post_content |-> Unbound,
     image_url |-> Unbound, image_data |-> Unbound,
     image_response |-> Unbound, image_html |-> Unbound,
     engagement_analysis |-> Unbound,
     formatted_engagement_analysis |-> Unbound]

NoEffects ==
    [env_writes |-> 0, search |-> 0, compose |-> 0, image_agent |-> 0,
     image_tool |-> 0, image_api |-> 0, downloads |-> 0,
     li_adapter |-> 0, li_requests |-> 0, li_posts |-> 0,
     email_adapter |-> 0, smtp_sessions |-> 0, emails |-> 0,
     scheduled |-> 0, drivers |-> 0, keys_used |-> {}]

NoReturn == [kind |-> "none", value |-> PyNone]

(***************************************************************************)
(* Validation block of linkedin_ai_poster (src/main.py:103-161).           *)
(***************************************************************************)
\* request_json.get('post_to_linkedin', True): the default of the flag
DefaultPostToLinkedIn == "true"

\* request_json.get('send_email', False): the default of the flag
DefaultSendEmail == "false"

\* mutant: the second flag is tested negated
ConflictingChannelsNegated(ptl, se) == Truthy(ptl) /\ ~Truthy(se)

\* "if post_to_linkedin and send_email_flag" (src/main.py:129)
ConflictingChannels(ptl, se) == Truthy(ptl) /\ Truthy(se)

\* mutant: the defaulting of lines 136-137 is left out
NoDefaultToLinkedIn(ptl, se) == ptl

\* "if not post_to_linkedin and not send_email_flag: post_to_linkedin = True"
DefaultToLinkedIn(ptl, se) ==
    IF ~Truthy(ptl) /\ ~Truthy(se) THEN "true" ELSE ptl

\* mutant: generate_image defaults to True
ResolveImageByDefault(json) ==
    LET ptl0 == GetOr(json, "post_to_linkedin", DefaultPostToLinkedIn)
        se == GetOr(json, "send_email", DefaultSendEmail)
        ptl == DefaultToLinkedIn(ptl0, se)
    IN  [NoLocals EXCEPT
            !.generate_image = GetOr(json, "generate_image", "true"),
            !.post_to_linkedin = ptl,
            !.send_email_flag = se,
            !.linkedin_token =
                IF Truthy(ptl) THEN Get(json, "linkedin_token") ELSE PyNone,
            !.email_app_password =
                IF Truthy(se) THEN Get(json, "email_app_password") ELSE PyNone,
            !.destination_email =
                IF Truthy(se) THEN Get(json, "destination_email") ELSE PyNone]

\* the locals bound by lines 120-142 for a request that got that far
Resolve(json) ==
    LET ptl0 == GetOr(json, "post_to_linkedin", DefaultPostToLinkedIn)
        se == GetOr(json, "send_email", DefaultSendEmail)
        ptl == DefaultToLinkedIn(ptl0, se)
    IN  [NoLocals EXCEPT
            !.generate_image = GetOr(json, "generate_image", "false"),
            !.post_to_linkedin = ptl,
            !.send_email_flag = se,
            !.linkedin_token =
                IF Truthy(ptl) THEN Get(json, "linkedin_token") ELSE PyNone,
            !.email_app_password =
                IF Truthy(se) THEN Get(json, "email_app_password") ELSE PyNone,
            !.destination_email =
                IF Truthy(se) THEN Get(json, "destination_email") ELSE PyNone]

\* mutant: the channel conflict is tested before the required fields
ValidationErrorConflictFirst(json) ==
    LET ptl0 == GetOr(json, "post_to_linkedin", DefaultPostToLinkedIn)
        se == GetOr(json, "send_email", DefaultSendEmail)
        r == Resolve(json)
    IN  IF ConflictingChannels(ptl0, se) THEN ErrConflict
        ELSE IF ~Truthy(Get(json, "openai_api_key")) THEN ErrMissingKey
        ELSE IF ~Truthy(Get(json, "topic")) THEN ErrMissingTopic
        ELSE IF Truthy(r.post_to_linkedin) /\ ~Truthy(r.linkedin_token)
             THEN ErrMissingToken
        ELSE IF Truthy(r.send_email_flag) /\ ~Truthy(r.email_app_password)
             THEN ErrMissingPassword
        ELSE IF Truthy(r.send_email_flag) /\ ~Truthy(r.destination_email)
             THEN ErrMissingDestination
        ELSE ""

\* mutant: the topic is tested before the API key
ValidationErrorTopicFirst(json) ==
    LET ptl0 == GetOr(json, "post_to_linkedin", DefaultPostToLinkedIn)
        se == GetOr(json, "send_email", DefaultSendEmail)
        r == Resolve(json)
    IN  IF ~Truthy(Get(json, "topic")) THEN ErrMissingTopic
        ELSE IF ~Truthy(Get(json, "openai_api_key")) THEN ErrMissingKey
        ELSE IF ConflictingChannels(ptl0, se) THEN ErrConflict
        ELSE IF Truthy(r.post_to_linkedin) /\ ~Truthy(r.linkedin_token)
             THEN ErrMissingToken
        ELSE IF Truthy(r.send_email_flag) /\ ~Truthy(r.email_app_password)
             THEN ErrMissingPassword
        ELSE IF Truthy(r.send_email_flag) /\ ~Truthy(r.destination_email)
             THEN ErrMissingDestination
        ELSE ""

\* mutant: the LinkedIn token is required on both channels
ValidationErrorTokenAlways(json) ==
    LET ptl0 == GetOr(json, "post_to_linkedin", DefaultPostToLinkedIn)
        se == GetOr(json, "send_email", DefaultSendEmail)
        r == Resolve(json)
    IN  IF ~Truthy(Get(json, "openai_api_key")) THEN ErrMissingKey
        ELSE IF ~Truthy(Get(json, "topic")) THEN ErrMissingTopic
        ELSE IF ConflictingChannels(ptl0, se) THEN ErrConflict
        ELSE IF ~Truthy(Get(json, "linkedin_token")) THEN ErrMissingToken
        ELSE IF Truthy(r.send_email_flag) /\ ~Truthy(r.email_app_password)
             THEN ErrMissingPassword
        ELSE IF Truthy(r.send_email_flag) /\ ~Truthy(r.destination_email)
             THEN ErrMissingDestination
        ELSE ""

\* the error of the first validation rule that rejects the body, "" if none
ValidationError(json) ==
    LET ptl0 == GetOr(json, "post_to_linkedin", DefaultPostToLinkedIn)
        se == GetOr(json, "send_email", DefaultSendEmail)
        r == Resolve(json)
    IN  IF ~Truthy(Get(json, "openai_api_key")) THEN ErrMissingKey
        ELSE IF ~Truthy(Get(json, "topic")) THEN ErrMissingTopic
        ELSE IF ConflictingChannels(ptl0, se) THEN ErrConflict
        ELSE IF Truthy(r.post_to_linkedin) /\ ~Truthy(r.linkedin_token)
             THEN ErrMissingToken
        ELSE IF Truthy(r.send_email_flag) /\ ~Truthy(r.email_app_password)
             THEN ErrMissingPassword
        ELSE IF Truthy(r.send_email_flag) /\ ~Truthy(r.destination_email)
             THEN ErrMissingDestination
        ELSE ""

(***************************************************************************)
(* generate_post_image (src/openai_utils.py:180-295).                      *)
(* o.agent: what Runner.run gave ("url": a string starting with http,      *)
(* "text": another string, "empty": a falsy output, "raise": it threw);    *)
(* o.salvaged: the message scan (SalvagePrompt) bound prompt_text; o.tool: *)
(* the direct call                                                         *)
(* of generate_linkedin_image; o.api: client.images.generate.              *)
(***************************************************************************)
ImageOutcomes ==
    [agent : {"url", "text", "empty", "raise"}, salvaged : BOOLEAN,
     tool : {"url", "errtext", "raise"}, api : {"url", "raise"}]

\* a line of a message: its length, the position of its first ':' (0 when
\* it has none), whether it starts with "generate_linkedin_image"; text
\* stands for its characters
LineSamples ==
    { [length |-> 41, colon_at |-> 11, echo |-> FALSE],
      [length |-> 40, colon_at |-> 0, echo |-> FALSE],
      [length |-> 41, colon_at |-> 10, echo |-> FALSE],
      [length |-> 41, colon_at |-> 0, echo |-> TRUE] }

\* msg.content.split('\n') of a message of at most n lines; <<>> is a
\* message without content
Contents(n) == UNION { [1..k -> LineSamples] : k \in 0..n }

Cost(content) == IF Len(content) = 0 THEN 1 ELSE Len(content)

RECURSIVE MessagesWithin(_)
MessagesWithin(budget) ==
    IF budget = 0 THEN {<<>>}
    ELSE {<<>>} \cup
         UNION { { <<c>> \o rest : rest \in MessagesWithin(budget - Cost(c)) } :
                 c \in Contents(budget) }

\* every line of a message list has its own text
Stamp(messages) ==
    [m \in 1..Len(messages) |->
        [i \in 1..Len(messages[m]) |->
            [length |-> messages[m][i].length,
             colon_at |-> messages[m][i].colon_at,
             echo |-> messages[m][i].echo,
             text |-> <<m, i>>]]]

\* result.messages of an image agent run
MessageLists == { Stamp(messages) : messages \in MessagesWithin(MaxScanned) }

\* prompt_text = None
NoPrompt == [length |-> 0, colon_at |-> 0, echo |-> FALSE, text |-> <<>>]

\* line 250: len(line) > 40 and ":" not in line[:10] and not
\* line.startswith("generate_linkedin_image")
Qualifies(line) ==
    line.length > 40 /\ line.colon_at \notin 1..10 /\ ~line.echo

\* lines 249-252: the loop over the lines of one message; the break ends it
RECURSIVE ScanLines(_, _, _)
ScanLines(lines, i, prompt_text) ==
    IF i > Len(lines) THEN prompt_text
    ELSE IF Qualifies(lines[i]) THEN lines[i]
    ELSE ScanLines(lines, i + 1, prompt_text)

\* lines 246-252: the loop over the messages; a message without content is
\* passed over, and the loop goes on after a message gave a line
RECURSIVE ScanMessages(_, _, _)
ScanMessages(messages, m, prompt_text) ==
    IF m > Len(messages) THEN prompt_text
    ELSE IF Len(messages[m]) = 0
         THEN ScanMessages(messages, m + 1, prompt_text)
    ELSE ScanMessages(messages, m + 1, ScanLines(messages[m], 1, prompt_text))

\* lines 244-252: the prompt salvaged from result.messages
SalvagePrompt(messages) ==
    IF Len(messages) = 0 THEN NoPrompt ELSE ScanMessages(messages, 1, NoPrompt)

ImageResult(raised, value, tool, api) ==
    [raised |-> raised, value |-> value, image_agent |-> 1,
     image_tool |-> tool, image_api |-> api]

\* mutant: a salvaged prompt is not used, the raw image API is called at once
GeneratePostImageSkipsTool(o) ==
    LET out == CASE o.agent = "url" -> ImgUrl
                 [] o.agent = "text" -> AgentText
                 [] OTHER -> PyNone
    IN  IF o.agent = "raise" THEN ImageResult(TRUE, PyNone, 0, 0)
        ELSE IF Truthy(out) /\ StartsWithHttp(out)
             THEN ImageResult(FALSE, out, 0, 0)
        ELSE IF o.api = "raise" THEN ImageResult(TRUE, PyNone, 0, 1)
        ELSE ImageResult(FALSE, ImgUrl, 0, 1)

GeneratePostImage(o) ==
    LET out == CASE o.agent = "url" -> ImgUrl
                 [] o.agent = "text" -> AgentText
                 [] OTHER -> PyNone
        lastResort(tool) ==
            IF o.api = "raise" THEN ImageResult(TRUE, PyNone, tool, 1)
            ELSE ImageResult(FALSE, ImgUrl, tool, 1)
    IN  IF o.agent = "raise" THEN ImageResult(TRUE, PyNone, 0, 0)
        ELSE IF Truthy(out) /\ StartsWithHttp(out)
             THEN ImageResult(FALSE, out, 0, 0)
        ELSE IF o.salvaged
             THEN IF o.tool = "raise" THEN lastResort(1)
                  ELSE ImageResult(FALSE,
                          IF o.tool = "url" THEN ImgUrl ELSE ToolErrorText, 1, 0)
        ELSE lastResort(0)

(***************************************************************************)
(* send_email (src/utils/email/email_send.py:12-110).                      *)
(* o.download: requests.get of the image URL; o.smtp: the first SMTP step  *)
(* that fails ("ok": none; "auth": login raises SMTPAuthenticationError);   *)
(* o.quit: server.quit() in the finally block.  The field session of the   *)
(* result lists the calls made on the SMTP server, in order, each with     *)
(* whether it succeeded.                                                   *)
(***************************************************************************)
SmtpOutcomes ==
    [download : {"ok", "fail"},
     smtp : {"ok", "connect", "ehlo", "starttls", "ehlo2", "auth", "sendmail"},
     quit : {"ok", "raise"}]

\* lines 81-93: smtplib.SMTP("smtp.gmail.com", 587), ehlo, starttls, ehlo,
\* login, sendmail
SmtpSteps ==
    <<"connect smtp.gmail.com:587", "ehlo", "starttls", "ehlo", "login",
      "sendmail">>

\* the position in SmtpSteps of the step that fails, 7 when none does
FailedStep(o) ==
    CASE o.smtp = "connect" -> 1
      [] o.smtp = "ehlo" -> 2
      [] o.smtp = "starttls" -> 3
      [] o.smtp = "ehlo2" -> 4
      [] o.smtp = "auth" -> 5
      [] o.smtp = "sendmail" -> 6
      [] OTHER -> 7

\* the try block of lines 78-96: the steps up to the first that fails
Attempted(o) ==
    [i \in 1..(IF FailedStep(o) > 6 THEN 6 ELSE FailedStep(o)) |->
        [call |-> SmtpSteps[i], ok |-> i < FailedStep(o)]]

\* the finally block of lines 106-110
Quit(o) == <<[call |-> "quit", ok |-> o.quit = "ok"]>>

\* mutant: a failed image download ends the call before the SMTP session
SendEmailFailsOnImage(image_data, o) ==
    LET fetch == Truthy(image_data) /\ StartsWithHttp(image_data)
        lost == fetch /\ o.download = "fail"
        opened == ~lost /\ o.smtp # "connect"
    IN  [raised |-> opened /\ o.quit = "raise",
         value |-> IF ~lost /\ o.smtp = "ok" THEN "true" ELSE "false",
         downloads |-> IF fetch THEN 1 ELSE 0,
         attached |-> fetch /\ o.download = "ok",
         smtp_sessions |-> IF lost THEN 0 ELSE 1,
         logged_in |-> ~lost /\ o.smtp \in {"ok", "sendmail"},
         emails |-> IF ~lost /\ o.smtp = "ok" THEN 1 ELSE 0,
         quits |-> IF opened THEN 1 ELSE 0,
         session |-> IF lost THEN <<>>
                     ELSE Attempted(o) \o (IF opened THEN Quit(o) ELSE <<>>)]

SendEmail(image_data, o) ==
    LET fetch == Truthy(image_data) /\ StartsWithHttp(image_data)
        opened == o.smtp # "connect"
    IN  [raised |-> opened /\ o.quit = "raise",
         value |-> IF o.smtp = "ok" THEN "true" ELSE "false",
         downloads |-> IF fetch THEN 1 ELSE 0,
         attached |-> fetch /\ o.download = "ok",
         smtp_sessions |-> 1,
         logged_in |-> o.smtp \in {"ok", "sendmail"},
         emails |-> IF o.smtp = "ok" THEN 1 ELSE 0,
         quits |-> IF opened THEN 1 ELSE 0,
         session |-> Attempted(o) \o (IF opened THEN Quit(o) ELSE <<>>)]

(***************************************************************************)
(* LinkedInAPI (src/api/linkedin_api.py).  The client object is the record *)
(* st; o holds the answers of the LinkedIn REST API and of the image host: *)
(* o.me[k] the k-th GET /me ("id": 200 with an id, "noid": 200 without,    *)
(* "fail": another status), o.text[k] the k-th text-only POST /ugcPosts,   *)
(* o.download, o.register, o.upload and o.imgpost the sub-steps of         *)
(* create_image_post.  st.log lists the requests the client made, in       *)
(* order, each with the answer it got; st.text_calls counts the calls of   *)
(* create_text_post and st.authors lists the user_urn put in the author    *)
(* field of each ugcPosts request.                                         *)
(***************************************************************************)
UserId == "abc123"
MeAnswers == {"id", "noid", "fail"}
PostAnswers == {"id", "noid", "fail"}
DownloadOutcomes == {"200", "404", "raise"}

LinkedInOutcomes ==
    [me : [1..4 -> MeAnswers], text : [1..2 -> PostAnswers],
     download : DownloadOutcomes, register : {"ok", "nofields", "fail"},
     upload : {"ok", "fail", "raise"}, imgpost : PostAnswers]

\* LinkedInAPI.__init__
NewApi ==
    [user_urn |-> PyNone, raised |-> FALSE, result |-> PyNone,
     me_calls |-> 0, text_calls |-> 0, text_attempts |-> 0,
     image_attempts |-> 0,
     posts |-> 0, requests |-> 0, downloads |-> 0, log |-> <<>>,
     authors |-> <<>>]

\* one request of the client and its answer
Logged(call, answer) == [call |-> call, answer |-> answer]

\* LinkedInAPI.get_user_info
GetUserInfo(st, o) ==
    LET k == st.me_calls + 1
        out == o.me[k]
    IN  [st EXCEPT !.me_calls = k, !.requests = @ + 1,
                   !.log = Append(@, Logged("GET /me", out)),
                   !.raised = (out = "fail"),
                   !.user_urn = IF out = "id" THEN UserId
                                ELSE IF out = "noid" THEN PyNone ELSE @]

\* "if not self.user_urn: self.get_user_info()"
EnsureUser(st, o) == IF Truthy(st.user_urn) THEN st ELSE GetUserInfo(st, o)

\* LinkedInAPI.create_text_post
CreateTextPost(st, o) ==
    LET s1 == EnsureUser([st EXCEPT !.text_calls = @ + 1], o)
        k == s1.text_attempts + 1
        out == o.text[k]
    IN  IF s1.raised THEN s1
        ELSE [s1 EXCEPT !.text_attempts = k, !.requests = @ + 1,
                        !.log = Append(@, Logged("ugcPosts NONE", out)),
                        !.authors = Append(@, s1.user_urn),
                        !.raised = (out = "fail"),
                        !.posts = IF out = "fail" THEN @ ELSE @ + 1,
                        !.result = IF out = "fail" THEN PyNone ELSE out]

\* the try block of LinkedInAPI.create_image_post (lines 167-225)
ImagePostAttempt(st, o) ==
    LET s2 == [st EXCEPT !.downloads = @ + 1,
                         !.log = Append(@, Logged("download", o.download))]
        s3 == [s2 EXCEPT !.requests = @ + 1,
                         !.log = Append(@, Logged("register", o.register))]
        s4 == [s3 EXCEPT !.requests = @ + 1,
                         !.log = Append(@, Logged("upload", o.upload))]
        s5 == [s4 EXCEPT !.requests = @ + 1, !.image_attempts = @ + 1,
                         !.authors = Append(@, st.user_urn),
                         !.log = Append(@, Logged("ugcPosts IMAGE", o.imgpost))]
    IN  IF o.download = "raise" THEN [s2 EXCEPT !.raised = TRUE]
        ELSE IF o.download # "200" THEN CreateTextPost(s2, o)
        ELSE IF o.register = "fail" THEN [s3 EXCEPT !.raised = TRUE]
        ELSE IF o.register = "nofields" THEN CreateTextPost(s3, o)
        ELSE IF o.upload = "raise" THEN [s4 EXCEPT !.raised = TRUE]
        ELSE IF o.upload = "fail" THEN CreateTextPost(s4, o)
        ELSE IF o.imgpost = "fail" THEN [s5 EXCEPT !.raised = TRUE]
        ELSE [s5 EXCEPT !.posts = @ + 1, !.result = o.imgpost]

\* mutant: the except branch of lines 227-230 lets the error go
CreateImagePostRaising(st, o) ==
    LET s1 == EnsureUser(st, o)
    IN  IF s1.raised THEN s1 ELSE ImagePostAttempt(s1, o)

\* LinkedInAPI.create_image_post
CreateImagePost(st, o) ==
    LET s1 == EnsureUser(st, o)
        tried == ImagePostAttempt(s1, o)
    IN  IF s1.raised THEN s1
        ELSE IF tried.raised
             THEN CreateTextPost([tried EXCEPT !.raised = FALSE], o)
        ELSE tried

\* LinkedInAPI.get_post_url
GetPostUrl(post_data) ==
    IF post_data = "id" THEN "https://www.linkedin.com/feed/update/urn:li:share:1"
    ELSE "https://www.linkedin.com/feed"

ErrLinkedIn == "Failed to post to LinkedIn"

\* mutant: the post is requested although the identity call failed
PostToLinkedInIgnoringIdentity(image_url, o) ==
    LET s0 == GetUserInfo(NewApi, o)
        s1 == [s0 EXCEPT !.raised = FALSE]
        s2 == IF Truthy(image_url) THEN CreateImagePost(s1, o)
              ELSE CreateTextPost(s1, o)
        made == IF Truthy(image_url) THEN "create_image_post"
                ELSE "create_text_post"
    IN  [api |-> s2,
         calls |-> IF s2.raised THEN <<"get_user_info", made>>
                   ELSE <<"get_user_info", made, "get_post_url">>,
         kind |-> IF s2.raised THEN "raise" ELSE "return",
         value |-> IF s2.raised THEN ErrLinkedIn ELSE GetPostUrl(s2.result)]

\* the module-level function post_to_linkedin (src/main.py:366-403); calls
\* lists the methods of the client that the function itself called
PostToLinkedIn(image_url, o) ==
    LET s1 == GetUserInfo(NewApi, o)
        s2 == IF s1.raised THEN s1
              ELSE IF Truthy(image_url) THEN CreateImagePost(s1, o)
              ELSE CreateTextPost(s1, o)
        made == IF Truthy(image_url) THEN "create_image_post"
                ELSE "create_text_post"
    IN  [api |-> s2,
         calls |-> IF s1.raised THEN <<"get_user_info">>
                   ELSE IF s2.raised THEN <<"get_user_info", made>>
                   ELSE <<"get_user_info", made, "get_post_url">>,
         kind |-> IF s2.raised THEN "raise" ELSE "return",
         value |-> IF s2.raised THEN ErrLinkedIn ELSE GetPostUrl(s2.result)]

(***************************************************************************)
(* Agent-backed stages of src/openai_utils.py.  A run of Runner.run either *)
(* raises or yields result.final_output.                                   *)
(***************************************************************************)
Raised(v) == [raises |-> TRUE, final_output |-> v]
Output(v) == [raises |-> FALSE, final_output |-> v]

\* the research agent: it throws, or its output is None, "" or a bundle
SearchRuns == {Raised(PyNone), Output(PyNone), Output(""), Output("facts")}

ErrSearchFunction == "Failed to search and analyze web content"

\* mutant: the emptiness test of lines 90-91 is left out
SearchWebContentUnchecked(a) ==
    IF a.raises THEN [kind |-> "raise", value |-> ErrSearchFunction]
    ELSE [kind |-> "return", value |-> a.final_output]

\* search_web_content (src/openai_utils.py:38-97)
SearchWebContent(a) ==
    IF a.raises \/ ~Truthy(a.final_output)
    THEN [kind |-> "raise", value |-> ErrSearchFunction]
    ELSE [kind |-> "return", value |-> a.final_output]

\* PostConfig (src/config.py:25-26)
default_max_length == 3000
min_post_length == 100

\* a string of n characters; the character at position i is i % 7
Text(n) == [i \in 1..n |-> i % 7]

\* max_length arguments and lengths of the compose agent's output
MaxLengths ==
    {-1, 0, 1, min_post_length - 1, min_post_length, min_post_length + 1,
     2000, default_max_length - 1, default_max_length,
     default_max_length + 1, 10000000}
OutputLengths ==
    {0, 1, min_post_length - 1, min_post_length, min_post_length + 1, 2001,
     default_max_length} \cup
    (default_max_length + 1 .. default_max_length + MaxOvershoot)

\* a value the compose agent can yield: its Python type and, for a str,
\* its characters
NoneValue == [type |-> "NoneType", text |-> <<>>]
DictValue == [type |-> "dict", text |-> <<>>]
Str(n) == [type |-> "str", text |-> Text(n)]

\* the compose agent: it throws, or its output is None, a dict, or a string
ComposeRuns ==
    {Raised(NoneValue), Output(NoneValue), Output(DictValue)}
    \cup { Output(Str(n)) : n \in OutputLengths }

\* isinstance(post_content, str)
IsStr(v) == v.type = "str"

\* mutant: only the lower end of the range is enforced
ClampMaxLengthLowerOnly(max_length) ==
    IF max_length < min_post_length THEN min_post_length ELSE max_length

\* lines 119-123: max_length forced into the allowed range
ClampMaxLength(max_length) ==
    IF max_length < min_post_length THEN min_post_length
    ELSE IF max_length > default_max_length THEN default_max_length
    ELSE max_length

\* mutant: the last max_length characters are kept
TruncateTail(post_content, max_length) ==
    IF Len(post_content) > max_length
    THEN SubSeq(post_content, Len(post_content) - max_length + 1,
                Len(post_content))
    ELSE post_content

\* lines 169-171: post_content[:max_length] when it is longer
Truncate(post_content, max_length) ==
    IF Len(post_content) > max_length
    THEN SubSeq(post_content, 1, max_length)
    ELSE post_content

\* mutant: an empty string passes the validation of lines 166-167
GenerateLinkedinPostEmptyOk(max_length, a) ==
    IF a.raises \/ ~IsStr(a.final_output)
    THEN [kind |-> "raise", value |-> ErrCompose]
    ELSE [kind |-> "return",
          value |-> Truncate(a.final_output.text, ClampMaxLength(max_length))]

\* generate_linkedin_post (src/openai_utils.py:100-177)
GenerateLinkedinPost(max_length, a) ==
    IF a.raises \/ ~IsStr(a.final_output) \/ Len(a.final_output.text) = 0
    THEN [kind |-> "raise", value |-> ErrCompose]
    ELSE [kind |-> "return",
          value |-> Truncate(a.final_output.text, ClampMaxLength(max_length))]

(***************************************************************************)
(* analyze_engagement_potential (src/openai_utils.py:297-349).  A text is  *)
(* a sequence of characters.                                               *)
(***************************************************************************)
Chars == {"a", "#", " ", "\n"}
Texts == UNION { [1..n -> Chars] : n \in 0..MaxTextLen }

\* word counts around the thresholds of lines 318, 323 and 325
WordCounts ==
    {50 - 1, 50, 50 + 1, 500 - 1, 500, 500 + 1,
     100 * 30 - 1, 100 * 30, 100 * 30 + 1}

\* a text of n one-character words separated by single spaces, the first
\* word being the character first
Words(n, first) ==
    [i \in 1..(2 * n - 1) |->
        IF i % 2 = 0 THEN " " ELSE IF i = 1 THEN first ELSE "a"]

LongTexts == { Words(n, c) : n \in WordCounts, c \in {"a", "#"} }

\* str.split() separates on runs of whitespace
IsSpace(c) == c \in {" ", "\n"}

\* the words of l followed by the words of r; when the two pieces touch in
\* the middle of a word, the last word of l and the first of r are one word
JoinWords(l, r, touching) ==
    IF touching
    THEN SubSeq(l, 1, Len(l) - 1) \o <<l[Len(l)] \o r[1]>> \o Tail(r)
    ELSE l \o r

\* str.split() on s[lo..hi]: the maximal runs of non-whitespace characters,
\* in order (the middle and the words of the two halves are each computed
\* once, as the one element of a set, and then joined)
RECURSIVE SplitRange(_, _, _)
SplitRange(s, lo, hi) ==
    IF lo = hi THEN (IF IsSpace(s[lo]) THEN <<>> ELSE << <<s[lo]>> >>)
    ELSE CHOOSE words \in
             UNION { { JoinWords(l, r,
                                 ~IsSpace(s[mid]) /\ ~IsSpace(s[mid + 1])) :
                         l \in {SplitRange(s, lo, mid)},
                         r \in {SplitRange(s, mid + 1, hi)} } :
                     mid \in {(lo + hi) \div 2} } : TRUE

Split(s) == IF Len(s) = 0 THEN <<>> ELSE SplitRange(s, 1, Len(s))

\* mutant: a '#' anywhere in the word counts
StartsWithHashAnywhere(word) == \E i \in 1..Len(word) : word[i] = "#"

\* word.startswith("#")
StartsWithHash(word) == Len(word) > 0 /\ word[1] = "#"

\* line 329: "#" not in post_content
HasHashChar(post_content) ==
    \E i \in 1..Len(post_content) : post_content[i] = "#"

\* line 342: ["#linkedin", "#professional", "#business"]
DefaultHashtags ==
    << <<"#", "l", "i", "n", "k", "e", "d", "i", "n">>,
       <<"#", "p", "r", "o", "f", "e", "s", "s", "i", "o", "n", "a", "l">>,
       <<"#", "b", "u", "s", "i", "n", "e", "s", "s">> >>

SuggestMore == "Consider adding more content for better engagement"
SuggestLess == "Post might be too long for optimal engagement"
SuggestHashtags == "Consider adding relevant hashtags"

\* mutant: the score is not held below 100
EngagementScore30Uncapped(word_count) ==
    IF word_count < 0 THEN 0 ELSE word_count

\* line 318: engagement_score is min(100, max(0, word_count / 30)); the
\* model keeps score30, that number times 30
EngagementScore30(word_count) ==
    IF word_count > 100 * 30 THEN 100 * 30
    ELSE IF word_count < 0 THEN 0 ELSE word_count

AnalyzeEngagementPotential(post_content) ==
    LET words == Split(post_content)
        word_count == Len(words)
        score30 == EngagementScore30(word_count)
        length == IF word_count < 50 THEN <<SuggestMore>>
                  ELSE IF word_count > 500 THEN <<SuggestLess>>
                  ELSE <<>>
        suggestions == IF ~HasHashChar(post_content)
                       THEN Append(length, SuggestHashtags)
                       ELSE length
        hashtags == SelectSeq(words, StartsWithHash)
    IN  [engagement_score30 |-> score30,
         suggested_improvements |-> suggestions,
         hashtag_suggestions |-> IF hashtags = <<>> THEN DefaultHashtags
                                 ELSE hashtags]

(***************************************************************************)
(* The process: invocations arrive one after another.                      *)
(***************************************************************************)
\* the three functions that drive an agent coroutine
AgentFunctions ==
    {"search_web_content", "generate_linkedin_post", "generate_post_image"}

\* what asyncio.get_event_loop() gives the calling thread: no loop, a
\* closed loop, a loop that is not running, a loop this thread is running
\* (the call comes from a coroutine or callback of that loop), or a loop
\* that another thread is running
LoopContexts ==
    {"none", "closed", "idle", "running_here", "running_elsewhere"}

\* direct calls of the stage functions of src/openai_utils.py
FunctionCalls ==
    { [fn |-> "search_web_content", args |-> [topic |-> "AI", loop |-> c]] :
        c \in LoopContexts }
    \cup { [fn |-> "generate_linkedin_post",
            args |-> [topic |-> "AI", max_length |-> m, loop |-> c]] :
            m \in MaxLengths, c \in LoopContexts }
    \cup { [fn |-> "generate_post_image",
            args |-> [topic |-> "AI", post_content |-> "post", loop |-> c]] :
            c \in LoopContexts }
    \cup { [fn |-> "analyze_engagement_potential",
            args |-> [post_content |-> t]] : t \in Texts \cup LongTexts }
    \cup { [fn |-> "send_email",
            args |-> [body |-> "post", image_data |-> u]] :
            u \in {PyNone, ImgUrl} }

AdapterCalls ==
    { [linkedin_token |-> "tok", post_content |-> "post", image_url |-> u] :
        u \in {PyNone, "", ImgUrl} }

Init ==
    /\ entry = "none"
    /\ pc = "idle"
    /\ req = EmptyJson
    /\ loc = NoLocals
    /\ fx = NoEffects
    /\ resp = NoResponse
    /\ ret = NoReturn
    /\ env = Unbound
    /\ nreq = 0

\* the functions framework hands an HTTP request to linkedin_ai_poster
Receive ==
    /\ pc = "idle"
    /\ nreq < MaxRequests
    /\ \E r \in HandlerRequests : req' = r
    /\ entry' = "linkedin_ai_poster"
    /\ pc' = "start"
    /\ nreq' = nreq + 1
    /\ UNCHANGED <<loc, fx, resp, ret, env>>

\* a caller invokes the module-level function post_to_linkedin
CallAdapter ==
    /\ pc = "idle"
    /\ nreq < MaxRequests
    /\ \E a \in AdapterCalls : req' = a
    /\ entry' = "post_to_linkedin"
    /\ pc' = "start"
    /\ nreq' = nreq + 1
    /\ UNCHANGED <<loc, fx, resp, ret, env>>

\* a caller invokes a stage function of src/openai_utils.py
CallFunction ==
    /\ pc = "idle"
    /\ nreq < MaxRequests
    /\ \E c \in FunctionCalls : entry' = c.fn /\ req' = c.args
    /\ pc' = "start"
    /\ nreq' = nreq + 1
    /\ UNCHANGED <<loc, fx, resp, ret, env>>

\* the invocation has returned; its frame is gone, the process lives on
Return ==
    /\ pc = "done"
    /\ entry' = "none"
    /\ pc' = "idle"
    /\ req' = EmptyJson
    /\ loc' = NoLocals
    /\ fx' = NoEffects
    /\ resp' = NoResponse
    /\ ret' = NoReturn
    /\ UNCHANGED <<env, nreq>>

InHandler(at) == entry = "linkedin_ai_poster" /\ pc = at

Respond(r) == resp' = r /\ pc' = "done"

(***************************************************************************)
(* linkedin_ai_poster (src/main.py:59-363), one action per stage.          *)
(***************************************************************************)
\* lines 87-161: method check, body parse, validation; envStep is what the
\* block does to the process environment and to the remote world (nothing)
ValidateAnd(envStep) ==
    /\ InHandler("start")
    /\ envStep
    /\ IF req.method # "POST"
       THEN Respond(Failure(405, ErrMethod)) /\ UNCHANGED loc
       ELSE IF req.get_json_raises
       THEN Respond(Failure(500, ErrBadRequest)) /\ UNCHANGED loc
       ELSE IF ~req.has_json
       THEN Respond(Failure(400, ErrNoJson)) /\ UNCHANGED loc
       ELSE IF ValidationError(req.json) # ""
       THEN Respond(Failure(400, ValidationError(req.json))) /\ UNCHANGED loc
       ELSE /\ loc' = Resolve(req.json)
            /\ pc' = "validated"
            /\ UNCHANGED resp
    /\ UNCHANGED <<entry, req, ret, nreq>>

\* mutant: the API key is put in the environment before validation
ValidateEnvFirst ==
    ValidateAnd(/\ env' = Get(req.json, "openai_api_key")
                /\ fx' = [fx EXCEPT !.env_writes = @ + 1])

Validate == ValidateAnd(UNCHANGED <<env, fx>>)

\* lines 163-168: set_openai_api_env and setup_openai_client
SetupClient ==
    /\ InHandler("validated")
    /\ env' = req.json.openai_api_key
    /\ fx' = [fx EXCEPT !.env_writes = @ + 1]
    /\ pc' = "ready"
    /\ UNCHANGED <<entry, req, loc, resp, ret, nreq>>

\* another request of the same process, handled by another thread while
\* this one is between its own set_openai_api_env and its delivery, reaches
\* line 164 with its own key
OtherRequestSetsKey ==
    /\ entry = "linkedin_ai_poster"
    /\ pc \in {"ready", "searched", "composed"}
    /\ nreq < MaxRequests
    /\ \E k \in {"sk-A", "sk-B"} : env' = k
    /\ nreq' = nreq + 1
    /\ UNCHANGED <<entry, pc, req, loc, fx, resp, ret>>

\* lines 170-172 with search_web_content (src/openai_utils.py:38-97)
Search ==
    /\ InHandler("ready")
    /\ fx' = [fx EXCEPT !.search = @ + 1, !.keys_used = @ \cup {env}]
    /\ \E a \in SearchRuns :
          LET r == SearchWebContent(a)
          IN  IF r.kind = "return"
              THEN /\ loc' = [loc EXCEPT !.search_results = r.value]
                   /\ pc' = "searched"
                   /\ UNCHANGED resp
              ELSE Respond(Failure(500, ErrSearch)) /\ UNCHANGED loc
    /\ UNCHANGED <<entry, req, ret, env, nreq>>

\* mutant: a failed compose agent is run a second time before giving up
ComposeWithRetry ==
    /\ InHandler("searched")
    /\ \E o \in {"ok", "empty", "raise"} :
          IF o = "ok"
          THEN /\ loc' = [loc EXCEPT !.post_content = "post"]
               /\ fx' = [fx EXCEPT !.compose = @ + 1,
                                   !.keys_used = @ \cup {env}]
               /\ pc' = "composed"
               /\ UNCHANGED resp
          ELSE /\ Respond(Failure(400, ErrCompose))
               /\ fx' = [fx EXCEPT !.compose = @ + 2,
                                   !.keys_used = @ \cup {env}]
               /\ UNCHANGED loc
    /\ UNCHANGED <<entry, req, ret, env, nreq>>

\* lines 174-176 with generate_linkedin_post (src/openai_utils.py:100-177):
\* every failure of the stage is re-raised as ValueError, which the handler
\* maps to 400 (src/main.py:351-356)
Compose ==
    /\ InHandler("searched")
    /\ fx' = [fx EXCEPT !.compose = @ + 1, !.keys_used = @ \cup {env}]
    /\ \E o \in {"ok", "empty", "raise"} :
          IF o = "ok"
          THEN /\ loc' = [loc EXCEPT !.post_content = "post"]
               /\ pc' = "composed"
               /\ UNCHANGED resp
          ELSE Respond(Failure(400, ErrCompose)) /\ UNCHANGED loc
    /\ UNCHANGED <<entry, req, ret, env, nreq>>

\* the keys the remote calls of the image stage carry: the agent and the
\* tool (src/agents_src/tools/tools.py:26) read OPENAI_API_KEY when they
\* are called, the raw image API goes through the client of line 168
KeysOfImage(r) ==
    {env} \cup (IF r.image_api = 1 THEN {req.json.openai_api_key} ELSE {})

\* what requests.get(image_url) gives the handler: status 200 with content,
\* status 200 with an empty body, another status, or an exception; a value
\* that is not a URL always raises (MissingSchema)
HandlerDownloads(image_url) ==
    IF StartsWithHttp(image_url) THEN {"200", "200-empty", "404", "raise"}
    ELSE {"raise"}

\* lines 189-193 and 245-248: image_data after a download that answered d
ImageData(d) ==
    IF d = "200" THEN "bytes" ELSE IF d = "200-empty" THEN "" ELSE PyNone

\* mutant: the image is embedded inline whatever the download gave
ImageHtmlAlwaysInline(image_url, image_data) ==
    IF ~Truthy(image_url) THEN "" ELSE "inline"

\* lines 252-259: the image part of the HTML body: none, the bytes inline
\* as base64, or a link to image_url
ImageHtml(image_url, image_data) ==
    IF ~Truthy(image_url) THEN ""
    ELSE IF Truthy(image_data) THEN "inline" ELSE "link"

\* lines 178-195: the optional image stage and the first image download
ImageStage ==
    /\ InHandler("composed")
    /\ IF ~Truthy(loc.generate_image)
       THEN /\ loc' = [loc EXCEPT !.image_url = PyNone, !.image_data = PyNone]
            /\ pc' = "imaged"
            /\ UNCHANGED <<fx, resp>>
       ELSE \E o \in ImageOutcomes :
            \E d \in HandlerDownloads(GeneratePostImage(o).value) :
            LET r == GeneratePostImage(o)
                fetch == Truthy(r.value) /\ Truthy(loc.send_email_flag)
                called == [fx EXCEPT !.image_agent = @ + r.image_agent,
                                     !.image_tool = @ + r.image_tool,
                                     !.image_api = @ + r.image_api,
                                     !.keys_used = @ \cup KeysOfImage(r)]
            IN  IF r.raised
                THEN /\ Respond(Failure(500, ErrImage))
                     /\ fx' = called
                     /\ UNCHANGED loc
                ELSE /\ loc' = [loc EXCEPT
                                  !.image_url = r.value,
                                  !.image_data = IF fetch THEN ImageData(d)
                                                 ELSE PyNone,
                                  !.image_response = IF fetch THEN d ELSE @]
                     /\ fx' = [called EXCEPT
                                  !.downloads = IF fetch THEN @ + 1 ELSE @]
                     /\ pc' = "imaged"
                     /\ UNCHANGED resp
    /\ UNCHANGED <<entry, req, ret, env, nreq>>

\* the characters of the compose output "post"
PostChars == <<"p", "o", "s", "t">>

\* the keys format_engagement_analysis copies and the names it gives them
FormatKeys ==
    [score |-> "Engagement Score", strengths |-> "Key Strengths",
     suggestions |-> "Improvement Suggestions",
     potential_reach |-> "Potential Reach",
     target_audience |-> "Target Audience"]

\* format_engagement_analysis (src/main.py:23-56) on a dict: a new dict
\* with the entries of the five keys that are present, renamed, the score
\* written as "<score>/10"
FormatEngagementAnalysis(engagement_analysis) ==
    LET kept == DOMAIN engagement_analysis \cap DOMAIN FormatKeys
        from(name) == CHOOSE k \in kept : FormatKeys[k] = name
    IN  [name \in { FormatKeys[k] : k \in kept } |->
            IF from(name) = "score"
            THEN [score |-> engagement_analysis[from(name)], out_of |-> 10]
            ELSE engagement_analysis[from(name)]]

\* lines 197-206: analyze_engagement_potential and format_engagement_analysis
Score ==
    /\ InHandler("imaged")
    /\ LET engagement_analysis == AnalyzeEngagementPotential(PostChars)
       IN  loc' = [loc EXCEPT
                     !.engagement_analysis = engagement_analysis,
                     !.formatted_engagement_analysis =
                         FormatEngagementAnalysis(engagement_analysis)]
    /\ pc' = "scored"
    /\ UNCHANGED <<entry, req, fx, resp, ret, env, nreq>>

\* lines 208-221: the LinkedIn branch.  The name post_to_linkedin is
\* assigned in the function body (line 125), so inside linkedin_ai_poster it
\* is the local flag, not the module-level function of line 366: the call
\* of line 211 calls the flag's value, which raises TypeError; the handler
\* maps it to 500 (lines 358-363) and the adapter is not entered.
DeliverLinkedIn ==
    /\ InHandler("scored")
    /\ Truthy(loc.post_to_linkedin)
    /\ Respond(Failure(500, ErrNotCallable))
    /\ UNCHANGED <<entry, req, loc, fx, ret, env, nreq>>

\* mutant: the success envelope of the email branch without image_url
EmailSuccessWithoutImage(l) ==
    [NoResponse EXCEPT !.status = 200, !.success = TRUE,
                       !.delivery_method = "email",
                       !.email_sent = "true",
                       !.destination_email = l.destination_email,
                       !.engagement_analysis = l.formatted_engagement_analysis,
                       !.post_content = l.post_content]

\* lines 329-341 and 349: the success envelope of the email branch
EmailSuccess(l) ==
    [NoResponse EXCEPT !.status = 200, !.success = TRUE,
                       !.delivery_method = "email",
                       !.email_sent = "true",
                       !.destination_email = l.destination_email,
                       !.engagement_analysis = l.formatted_engagement_analysis,
                       !.post_content = l.post_content,
                       !.image_url = l.image_url]

\* lines 223-349: the email branch with send_email; ret keeps what the
\* call of send_email gave, which the handler does not look at
DeliverEmail ==
    /\ InHandler("scored")
    /\ ~Truthy(loc.post_to_linkedin)
    /\ Truthy(loc.send_email_flag)
    /\ \E d \in HandlerDownloads(loc.image_url), o \in SmtpOutcomes :
          LET fetch == Truthy(loc.image_url) /\ Truthy(loc.generate_image)
              data == IF fetch THEN ImageData(d) ELSE PyNone
              r == SendEmail(loc.image_url, o)
          IN  /\ loc' = [loc EXCEPT
                           !.image_data = data,
                           !.image_response = IF fetch THEN d ELSE @,
                           !.image_html = ImageHtml(loc.image_url, data)]
              /\ fx' = [fx EXCEPT
                          !.downloads = @ + r.downloads
                                          + (IF fetch THEN 1 ELSE 0),
                          !.email_adapter = @ + 1,
                          !.smtp_sessions = @ + r.smtp_sessions,
                          !.emails = @ + r.emails]
              /\ ret' = [kind |-> IF r.raised THEN "raise" ELSE "return",
                         value |-> IF r.raised THEN PyNone ELSE r.value]
              /\ IF r.raised
                 THEN Respond([Failure(500, ErrEmail) EXCEPT
                                 !.delivery_method = "email"])
                 ELSE Respond(EmailSuccess(loc))
    /\ UNCHANGED <<entry, req, env, nreq>>

(***************************************************************************)
(* post_to_linkedin called as a function (src/main.py:366-403).            *)
(***************************************************************************)
RunAdapter ==
    /\ entry = "post_to_linkedin"
    /\ pc = "start"
    /\ \E o \in LinkedInOutcomes :
          LET r == PostToLinkedIn(req.image_url, o)
          IN  /\ ret' = [kind |-> r.kind, value |-> r.value, api |-> r.api,
                         calls |-> r.calls]
              /\ fx' = [fx EXCEPT !.li_adapter = @ + 1,
                                  !.li_requests = @ + r.api.requests,
                                  !.li_posts = @ + r.api.posts,
                                  !.downloads = @ + r.api.downloads]
    /\ pc' = "done"
    /\ UNCHANGED <<entry, req, loc, resp, env, nreq>>

(***************************************************************************)
(* The stage functions called directly; ret keeps what the agent gave      *)
(* (ret.agent) beside what the function returned or raised.                *)
(***************************************************************************)
\* lines 63-85 (and 131-160, 213-235): the function takes the thread's
\* event loop, or a new one when there is none or it is closed.  On a
\* running loop it hands the coroutine to the loop with
\* run_coroutine_threadsafe and blocks the thread in .result(); otherwise it
\* drives the coroutine itself with run_until_complete.
EnterLoop ==
    /\ entry \in AgentFunctions
    /\ pc = "start"
    /\ IF req.loop \in {"running_here", "running_elsewhere"}
       THEN /\ fx' = [fx EXCEPT !.scheduled = @ + 1]
            /\ pc' = "waiting"
       ELSE /\ pc' = "driving"
            /\ UNCHANGED fx
    /\ UNCHANGED <<entry, req, loc, resp, ret, env, nreq>>

\* the agent coroutine runs to its end: in run_until_complete on the
\* calling thread, or on the loop's thread once that thread takes the
\* scheduled coroutine.  A thread blocked in .result() takes nothing from
\* its own loop.
Driven ==
    \/ pc = "driving"
    \/ pc = "waiting" /\ req.loop = "running_elsewhere"

RunSearch ==
    /\ entry = "search_web_content"
    /\ Driven
    /\ \E a \in SearchRuns :
          LET r == SearchWebContent(a)
          IN  ret' = [kind |-> r.kind, value |-> r.value, agent |-> a]
    /\ fx' = [fx EXCEPT !.search = @ + 1, !.drivers = @ + 1,
                        !.keys_used = @ \cup {env}]
    /\ pc' = "done"
    /\ UNCHANGED <<entry, req, loc, resp, env, nreq>>

RunCompose ==
    /\ entry = "generate_linkedin_post"
    /\ Driven
    /\ \E a \in ComposeRuns :
          LET r == GenerateLinkedinPost(req.max_length, a)
          IN  ret' = [kind |-> r.kind, value |-> r.value, agent |-> a]
    /\ fx' = [fx EXCEPT !.compose = @ + 1, !.drivers = @ + 1,
                        !.keys_used = @ \cup {env}]
    /\ pc' = "done"
    /\ UNCHANGED <<entry, req, loc, resp, env, nreq>>

\* lines 293-295: every failure leaves as "Failed to generate post image: ..."
ErrImageFunction == "Failed to generate post image"

\* lines 213-252: the image agent runs and, when its output is no URL, its
\* messages are scanned for a prompt; the messages of a run whose output is
\* not scanned are not read and are left out
ScanImage ==
    /\ entry = "generate_post_image"
    /\ Driven
    /\ \E a \in {"url", "text", "empty", "raise"} :
          \E messages \in IF a \in {"text", "empty"} THEN MessageLists
                          ELSE {<<>>} :
             ret' = [kind |-> "none", value |-> PyNone, final_output |-> a,
                     messages |-> messages,
                     prompt_text |-> SalvagePrompt(messages)]
    /\ fx' = [fx EXCEPT !.image_agent = @ + 1, !.drivers = @ + 1,
                        !.keys_used = @ \cup {env}]
    /\ pc' = "scanned"
    /\ UNCHANGED <<entry, req, loc, resp, env, nreq>>

\* lines 241-295: the validation of the output and the fallbacks
RunImage ==
    /\ entry = "generate_post_image"
    /\ pc = "scanned"
    /\ \E o \in ImageOutcomes :
          LET r == GeneratePostImage(o)
          IN  /\ o.agent = ret.final_output
              /\ o.salvaged = (ret.prompt_text # NoPrompt)
              /\ ret' = [kind |-> IF r.raised THEN "raise" ELSE "return",
                         value |-> IF r.raised THEN ErrImageFunction
                                   ELSE r.value,
                         agent |-> o]
              /\ fx' = [fx EXCEPT !.image_tool = @ + r.image_tool,
                                  !.image_api = @ + r.image_api]
    /\ pc' = "done"
    /\ UNCHANGED <<entry, req, loc, resp, env, nreq>>

RunAnalyze ==
    /\ entry = "analyze_engagement_potential"
    /\ pc = "start"
    /\ ret' = [kind |-> "return",
               value |-> AnalyzeEngagementPotential(req.post_content)]
    /\ pc' = "done"
    /\ UNCHANGED <<entry, req, loc, fx, resp, env, nreq>>

\* send_email called as a function; ret keeps what the network gave
\* (ret.outcome) and whether the message got the image part (ret.attached)
ErrQuit == "SMTPServerDisconnected"

RunSendEmail ==
    /\ entry = "send_email"
    /\ pc = "start"
    /\ \E o \in SmtpOutcomes :
          LET r == SendEmail(req.image_data, o)
          IN  /\ ret' = [kind |-> IF r.raised THEN "raise" ELSE "return",
                         value |-> IF r.raised THEN ErrQuit ELSE r.value,
                         outcome |-> o,
                         attached |-> r.attached,
                         logged_in |-> r.logged_in,
                         quits |-> r.quits,
                         session |-> r.session]
              /\ fx' = [fx EXCEPT !.email_adapter = @ + 1,
                                  !.downloads = @ + r.downloads,
                                  !.smtp_sessions = @ + r.smtp_sessions,
                                  !.emails = @ + r.emails]
    /\ pc' = "done"
    /\ UNCHANGED <<entry, req, loc, resp, env, nreq>>

\* the steps of one run of linkedin_ai_poster
HandlerStep ==
    \/ Validate
    \/ SetupClient
    \/ Search
    \/ Compose
    \/ ImageStage
    \/ Score
    \/ DeliverLinkedIn
    \/ DeliverEmail

Next ==
    \/ Receive
    \/ CallAdapter
    \/ CallFunction
    \/ OtherRequestSetsKey
    \/ Return
    \/ Validate
    \/ SetupClient
    \/ Search
    \/ Compose
    \/ ImageStage
    \/ Score
    \/ DeliverLinkedIn
    \/ DeliverEmail
    \/ RunAdapter
    \/ EnterLoop
    \/ RunSearch
    \/ RunCompose
    \/ ScanImage
    \/ RunImage
    \/ RunAnalyze
    \/ RunSendEmail

Spec == Init /\ [][Next]_vars

\* a thread that can take a step eventually takes one
LiveSpec == Spec /\ WF_vars(Next)

(***************************************************************************)
(* Properties.  The predicates below read the request as the claims word   *)
(* it, not through the operators that model the validation code.           *)
(***************************************************************************)
HandlerRuns == entry = "linkedin_ai_poster"
HandlerDone == HandlerRuns /\ pc = "done"
PostWithJson == HandlerRuns /\ req.method = "POST" /\ req.has_json
Has(f) == req.json[f] \notin {Absent, ""}
FlagTrue(f) == req.json[f] = "true"

\* search, compose and the optional image stage returned normally (scoring
\* cannot fail): the handler got as far as delivering
StagesSucceeded == HandlerRuns /\ loc.image_url # Unbound /\ pc \in {"scored", "done"}
Delivered == StagesSucceeded /\ pc = "done"

ValidationRejections ==
    {ErrMissingKey, ErrMissingTopic, ErrConflict, ErrMissingToken,
     ErrMissingPassword, ErrMissingDestination}

\* C1: a request that passes validation and whose stages all succeed runs
\* exactly one delivery adapter: the LinkedIn adapter on the LinkedIn
\* channel, the email adapter on the email channel.
C1_ExactlyOneAdapter ==
    Delivered =>
        /\ fx.li_adapter + fx.email_adapter = 1
        /\ Truthy(loc.post_to_linkedin) => fx.li_adapter = 1
        /\ Truthy(loc.send_email_flag) => fx.email_adapter = 1

\* C2: a POST request resolved to the LinkedIn channel (key, topic and
\* token present) whose stages all succeed ends with status 200,
\* success=true, delivery_method 'linkedin' and the post URL.
C2_LinkedInSuccess ==
    (/\ Delivered
     /\ PostWithJson
     /\ Has("openai_api_key") /\ Has("topic") /\ Has("linkedin_token")
     /\ ~FlagTrue("send_email"))
    => /\ resp.status = 200
       /\ resp.success
       /\ resp.delivery_method = "linkedin"
       /\ resp.post_url # PyNone

\* C3: a POST request with key and topic in which post_to_linkedin and
\* send_email are both true is answered 400, success=false, with the
\* conflicting-channels error, whatever credentials it carries.
C3_ConflictRejected ==
    (/\ HandlerDone
     /\ PostWithJson
     /\ Has("openai_api_key") /\ Has("topic")
     /\ FlagTrue("post_to_linkedin") /\ FlagTrue("send_email"))
    => resp = Failure(400, ErrConflict)

C3_Witness ==
    /\ HandlerDone
    /\ PostWithJson
    /\ Has("openai_api_key") /\ Has("topic")
    /\ FlagTrue("post_to_linkedin") /\ FlagTrue("send_email")
    /\ Has("linkedin_token") /\ Has("email_app_password")
    /\ Has("destination_email")
    /\ resp.status = 400

\* C4 as stated: whenever both flags are true the answer is 400 with the
\* conflicting-channels error, also when topic or openai_api_key is missing.
C4_ConflictRegardless ==
    (/\ HandlerDone
     /\ PostWithJson
     /\ FlagTrue("post_to_linkedin") /\ FlagTrue("send_email"))
    => resp = Failure(400, ErrConflict)

\* C4 amended: whenever both flags are true the answer is 400 with
\* success=false; the error is the conflicting-channels error when
\* openai_api_key and topic are present, 'Missing OpenAI API key' when the
\* key is missing, and 'Missing post topic' when only the topic is missing.
C4_ConflictAfterRequired ==
    (/\ HandlerDone
     /\ PostWithJson
     /\ FlagTrue("post_to_linkedin") /\ FlagTrue("send_email"))
    => /\ resp.status = 400
       /\ ~resp.success
       /\ resp.error = IF ~Has("openai_api_key") THEN ErrMissingKey
                       ELSE IF ~Has("topic") THEN ErrMissingTopic
                       ELSE ErrConflict

C4_Witness ==
    /\ HandlerDone
    /\ PostWithJson
    /\ FlagTrue("post_to_linkedin") /\ FlagTrue("send_email")
    /\ ~Has("openai_api_key")
    /\ resp = Failure(400, ErrMissingKey)

\* C5: after the validation block of a request that passed it, exactly one
\* of the locals post_to_linkedin and send_email_flag is true.
C5_ExactlyOneChannel ==
    (HandlerRuns /\ pc \notin {"start", "idle"} /\ loc.post_to_linkedin # Unbound)
    => (Truthy(loc.post_to_linkedin) # Truthy(loc.send_email_flag))

C5_Witness ==
    /\ HandlerRuns
    /\ pc = "scored"
    /\ req.json.post_to_linkedin = "false"
    /\ req.json.send_email = "false"
    /\ Truthy(loc.post_to_linkedin)
    /\ ~Truthy(loc.send_email_flag)

\* C6: a request in which neither flag is true (post_to_linkedin false and
\* send_email false or absent) is on the LinkedIn channel: it needs
\* linkedin_token and is delivered by the LinkedIn adapter, never by email.
C6_DefaultsToLinkedIn ==
    (/\ HandlerDone
     /\ PostWithJson
     /\ Has("openai_api_key") /\ Has("topic")
     /\ req.json.post_to_linkedin = "false"
     /\ req.json.send_email \in {"false", Absent})
    => /\ ~Has("linkedin_token") => resp = Failure(400, ErrMissingToken)
       /\ fx.email_adapter = 0
       /\ Delivered => fx.li_adapter = 1

\* C7: a request with send_email=true that omits post_to_linkedin and
\* carries email_app_password and destination_email is on the email channel
\* and is not rejected as conflicting.
C7_SendEmailAloneIsEmail ==
    (/\ HandlerDone
     /\ PostWithJson
     /\ Has("openai_api_key") /\ Has("topic")
     /\ FlagTrue("send_email")
     /\ req.json.post_to_linkedin = Absent
     /\ Has("email_app_password") /\ Has("destination_email"))
    => /\ resp.error # ErrConflict
       /\ ~Truthy(loc.post_to_linkedin)
       /\ Truthy(loc.send_email_flag)

\* C8: when the email transport did not deliver the message, the handler
\* answers 500 with success=false, never success=true with email_sent=true.
C8_FailedEmailIs500 ==
    (HandlerDone /\ fx.email_adapter = 1 /\ fx.emails = 0)
    => /\ resp.status = 500
       /\ ~resp.success
       /\ resp.email_sent # "true"

\* C9: a request that ends with success=true (status 200) caused exactly
\* one outbound delivery: one LinkedIn post or one email.
C9_OneDeliveryPerSuccess ==
    (HandlerDone /\ resp.success /\ resp.status = 200)
    => fx.li_posts + fx.emails = 1

\* C10: a request rejected by validation has made no agent invocation, no
\* image API call, no download, no LinkedIn request and no SMTP session,
\* and has not written OPENAI_API_KEY; nothing of the kind happens before
\* the validation block has run.
C10_ValidationBeforeRemoteCalls ==
    (/\ HandlerRuns
     /\ \/ pc = "start"
        \/ pc = "done" /\ resp.error \in ValidationRejections)
    => fx = NoEffects

\* a request rejected for a missing credential in a process whose earlier
\* request had put its key in the environment
C10_Witness ==
    /\ HandlerDone
    /\ resp = Failure(400, ErrMissingToken)
    /\ nreq = 2
    /\ env = "sk-A"
    /\ fx = NoEffects

\* C11: a POST request with a non-empty JSON body whose openai_api_key is
\* absent or empty is answered 400 'Missing OpenAI API key'; one that has
\* the key but whose topic is absent or empty is answered 400 'Missing post
\* topic'; in both cases success is false.
C11_MissingRequiredField ==
    (HandlerDone /\ PostWithJson /\ (~Has("openai_api_key") \/ ~Has("topic")))
    => /\ resp.status = 400
       /\ ~resp.success
       /\ resp.error = IF ~Has("openai_api_key") THEN ErrMissingKey
                       ELSE ErrMissingTopic

C11_Witness ==
    /\ HandlerDone
    /\ PostWithJson
    /\ Has("openai_api_key")
    /\ req.json.topic = ""
    /\ Has("linkedin_token")
    /\ resp = Failure(400, ErrMissingTopic)

\* the channel the claims call resolved, read from the request: email when
\* send_email is true and post_to_linkedin is false, LinkedIn when
\* send_email is not true
RequestOnEmail ==
    FlagTrue("send_email") /\ req.json.post_to_linkedin = "false"
RequestOnLinkedIn == ~FlagTrue("send_email")
CredentialErrors ==
    {ErrMissingToken, ErrMissingPassword, ErrMissingDestination}

\* C12: the secret of the resolved channel is required and only that one:
\* on the LinkedIn channel a missing or empty linkedin_token gives 400, on
\* the email channel a missing or empty email_app_password or
\* destination_email gives 400; the credentials of the other channel are
\* neither required (the request passes validation without them) nor read
\* (the locals that would hold them stay None).
C12_OnlyResolvedChannelSecret ==
    (HandlerDone /\ PostWithJson /\ Has("openai_api_key") /\ Has("topic"))
    => /\ (RequestOnLinkedIn /\ ~Has("linkedin_token"))
            => resp = Failure(400, ErrMissingToken)
       /\ (RequestOnLinkedIn /\ Has("linkedin_token"))
            => /\ resp.error \notin CredentialErrors
               /\ loc.email_app_password = PyNone
               /\ loc.destination_email = PyNone
       /\ (RequestOnEmail /\ ~Has("email_app_password"))
            => resp = Failure(400, ErrMissingPassword)
       /\ (RequestOnEmail /\ Has("email_app_password")
             /\ ~Has("destination_email"))
            => resp = Failure(400, ErrMissingDestination)
       /\ (RequestOnEmail /\ Has("email_app_password")
             /\ Has("destination_email"))
            => /\ resp.error \notin CredentialErrors
               /\ loc.linkedin_token = PyNone

\* an email request without any LinkedIn token that was delivered
C12_Witness ==
    /\ HandlerDone
    /\ PostWithJson
    /\ RequestOnEmail
    /\ ~Has("linkedin_token")
    /\ Has("email_app_password") /\ Has("destination_email")
    /\ loc.linkedin_token = PyNone
    /\ resp.status = 200

\* C13: when the search, compose or image stage fails, the handler answers
\* 500 with success=false (400 is for validation failures).
SearchFailed == fx.search = 1 /\ loc.search_results = Unbound
ComposeFailed == fx.compose = 1 /\ loc.post_content = Unbound
ImageFailed == fx.image_agent = 1 /\ loc.image_url = Unbound

C13_StageFailureIs500 ==
    (HandlerDone /\ (SearchFailed \/ ComposeFailed \/ ImageFailed))
    => /\ resp.status = 500
       /\ ~resp.success

\* C14: every invocation of linkedin_ai_poster ends by returning one
\* envelope with a status in {200, 400, 405, 500}: while it has not
\* returned it can take a step (nothing escapes and nothing blocks),
\* success is true exactly when the status is 200, a failure envelope has
\* success=false and an error string, and a non-POST request gets 405
\* 'Only POST requests are supported' without any processing.
C14_AlwaysAnEnvelope ==
    /\ (HandlerRuns /\ pc # "done") => ENABLED HandlerStep
    /\ HandlerDone =>
         /\ resp.status \in {200, 400, 405, 500}
         /\ resp.success <=> resp.status = 200
         /\ ~resp.success => resp.error # PyNone
         /\ req.method # "POST" =>
              /\ resp = Failure(405, ErrMethod)
              /\ fx = NoEffects
              /\ loc = NoLocals

C14_Witness ==
    /\ HandlerDone
    /\ req.method = "GET"
    /\ req.has_json
    /\ Has("openai_api_key") /\ Has("topic") /\ Has("linkedin_token")
    /\ resp = Failure(405, ErrMethod)

\* the bound the claims give for a post: max_length brought into
\* [min_post_length, default_max_length]
ClaimedBound(m) ==
    CHOOSE b \in min_post_length..default_max_length :
        \/ b = m
        \/ m < min_post_length /\ b = min_post_length
        \/ m > default_max_length /\ b = default_max_length

ComposeDone == entry = "generate_linkedin_post" /\ pc = "done"
SearchDone == entry = "search_web_content" /\ pc = "done"

\* C15: for every max_length (1 and 10,000,000 included) and every agent
\* output, a post returned by generate_linkedin_post is no longer than
\* max_length clamped into [100, 3000], and it is the agent's output cut
\* at exactly that bound when the output is longer.
C15_LengthWithinClampedBound ==
    (ComposeDone /\ ret.kind = "return")
    => /\ Len(ret.value) <= ClaimedBound(req.max_length)
       /\ ret.value =
            IF Len(ret.agent.final_output.text) > ClaimedBound(req.max_length)
            THEN [i \in 1..ClaimedBound(req.max_length) |->
                     ret.agent.final_output.text[i]]
            ELSE ret.agent.final_output.text

\* max_length = 10,000,000 and an output of 3001 characters: 3000 returned
C15_Witness ==
    /\ ComposeDone
    /\ req.max_length = 10000000
    /\ ret.kind = "return"
    /\ Len(ret.agent.final_output.text) = default_max_length + 1
    /\ Len(ret.value) = default_max_length

\* C16: search_web_content returns the agent's non-empty output or raises,
\* generate_linkedin_post returns a non-empty string or raises; an agent
\* call that throws or yields an empty or non-string output ends in an
\* error, never in a returned value.
C16_NeverEmpty ==
    /\ SearchDone =>
         /\ ret.kind \in {"return", "raise"}
         /\ ret.kind = "return" <=>
              (~ret.agent.raises /\ ret.agent.final_output \notin {PyNone, ""})
         /\ ret.kind = "return" => ret.value = ret.agent.final_output
    /\ ComposeDone =>
         /\ ret.kind \in {"return", "raise"}
         /\ ret.kind = "return" <=>
              /\ ~ret.agent.raises
              /\ ret.agent.final_output.type = "str"
              /\ ret.agent.final_output.text # <<>>
         /\ ret.kind = "return" => Len(ret.value) > 0

\* the compose agent gave the empty string and the function raised
C16_Witness ==
    /\ ComposeDone
    /\ ~ret.agent.raises
    /\ ret.agent.final_output = Str(0)
    /\ ret.kind = "raise"

ImageDone == entry = "generate_post_image" /\ pc = "done"
AnalyzeDone == entry = "analyze_engagement_potential" /\ pc = "done"

\* C17: whatever the agent, the direct tool call and the raw image API
\* give, a value returned by generate_post_image starts with 'http'.
C17_ReturnsOnlyHttp ==
    (ImageDone /\ ret.kind = "return") => ret.value = ImgUrl

\* the message the test of C18 expects
ClaimedImageError ==
    "Failed to generate post image: Agent failed to generate a valid image URL"

\* C18: when the image agent's final output is a string that does not
\* start with 'http', generate_post_image raises 'Failed to generate post
\* image: Agent failed to generate a valid image URL'.
C18_InvalidOutputRaises ==
    (ImageDone /\ ret.agent.agent = "text")
    => (ret.kind = "raise" /\ ret.value = ClaimedImageError)

\* the positions of a text where a whitespace-delimited token starting
\* with '#' begins, and the position where the token beginning at i ends
HashTokenStarts(t) ==
    { i \in 1..Len(t) : t[i] = "#" /\ (i = 1 \/ t[i - 1] \in {" ", "\n"}) }
TokenEnd(t, i) ==
    CHOOSE j \in i..Len(t) :
        /\ \A m \in i..j : t[m] \notin {" ", "\n"}
        /\ j = Len(t) \/ t[j + 1] \in {" ", "\n"}
NthStart(t, k) ==
    CHOOSE i \in HashTokenStarts(t) :
        Cardinality({ j \in HashTokenStarts(t) : j < i }) = k - 1

\* C20: for a text with no token starting with '#', hashtag_suggestions is
\* [#linkedin, #professional, #business]; for a text with N >= 1 such
\* tokens it is exactly those N tokens in order of occurrence.
C20_HashtagSuggestions ==
    AnalyzeDone =>
        LET t == req.post_content
            out == ret.value.hashtag_suggestions
            N == Cardinality(HashTokenStarts(t))
        IN  IF N = 0
            THEN out = << <<"#", "l", "i", "n", "k", "e", "d", "i", "n">>,
                          <<"#", "p", "r", "o", "f", "e", "s", "s", "i", "o",
                            "n", "a", "l">>,
                          <<"#", "b", "u", "s", "i", "n", "e", "s", "s">> >>
            ELSE /\ Len(out) = N
                 /\ \A k \in 1..N :
                      out[k] = SubSeq(t, NthStart(t, k),
                                      TokenEnd(t, NthStart(t, k)))

\* "# #a": two tokens starting with '#', returned in that order
C20_Witness ==
    /\ AnalyzeDone
    /\ req.post_content = <<"#", " ", "#", "a">>
    /\ ret.value.hashtag_suggestions = << <<"#">>, <<"#", "a">> >>

SendEmailDone == entry = "send_email" /\ pc = "done"

\* the image URL handed to send_email could not be downloaded
ImageLost == req.image_data # PyNone /\ ret.outcome.download = "fail"

\* C21: when the image URL cannot be downloaded, send_email still opens
\* the SMTP session and its result is the one the SMTP steps give: with
\* those steps succeeding it calls sendmail exactly once and returns True,
\* and the message carries no image attachment.
C21_ImageProblemDoesNotFailEmail ==
    (SendEmailDone /\ ImageLost)
    => /\ fx.downloads = 1
       /\ fx.smtp_sessions = 1
       /\ ~ret.attached
       /\ (ret.outcome.smtp = "ok" /\ ret.outcome.quit = "ok")
            => /\ ret.kind = "return"
               /\ ret.value = "true"
               /\ fx.emails = 1

C21_Witness ==
    /\ SendEmailDone
    /\ ImageLost
    /\ ret.outcome.smtp = "ok"
    /\ ret.kind = "return"
    /\ ret.value = "true"
    /\ fx.emails = 1

\* the request of C22: the email channel named explicitly, both email
\* credentials, an image asked for
EmailRequestWithImage ==
    /\ PostWithJson
    /\ Has("openai_api_key") /\ Has("topic")
    /\ req.json.post_to_linkedin = "false"
    /\ FlagTrue("send_email")
    /\ Has("email_app_password") /\ Has("destination_email")
    /\ FlagTrue("generate_image")

\* send_email was called and returned True
EmailSent == ret.kind = "return" /\ ret.value = "true"

\* C22: a valid email-channel request with generate_image=true whose
\* stages and delivery succeed has run search, compose, image and the
\* email adapter once each and no LinkedIn adapter, and is answered 200
\* with success=true, delivery_method='email', email_sent=true, the
\* request's destination_email, the compose output as post_content and the
\* image stage output as image_url.
C22_EmailSuccess ==
    (Delivered /\ EmailRequestWithImage /\ EmailSent)
    => /\ fx.search = 1 /\ fx.compose = 1 /\ fx.image_agent = 1
       /\ fx.email_adapter = 1 /\ fx.emails = 1
       /\ fx.li_adapter = 0 /\ fx.li_posts = 0
       /\ resp.status = 200
       /\ resp.success
       /\ resp.error = PyNone
       /\ resp.delivery_method = "email"
       /\ resp.email_sent = "true"
       /\ resp.destination_email = req.json.destination_email
       /\ resp.post_content = loc.post_content
       /\ resp.post_content \notin {PyNone, Unbound}
       /\ resp.image_url = loc.image_url
       /\ resp.image_url \notin {PyNone, Unbound}
       /\ resp.post_url = PyNone

C22_Witness ==
    /\ Delivered
    /\ EmailRequestWithImage
    /\ EmailSent
    /\ resp.status = 200
    /\ resp.image_url = ImgUrl

\* an agent function was called on the thread that is running the loop
CalledOnRunningLoop ==
    entry \in AgentFunctions /\ req.loop = "running_here"

\* C23: search_web_content, generate_linkedin_post and generate_post_image,
\* called on the thread that owns a running event loop, eventually obtain
\* the agent result and return.
C23_ReturnsOnRunningLoop ==
    (CalledOnRunningLoop /\ pc = "start") ~> (CalledOnRunningLoop /\ pc = "done")

\* C24: every remote call made for a request carries that request's own
\* openai_api_key, whatever other requests the process handles before or
\* meanwhile.
C24_OwnKeyOnly ==
    HandlerRuns => fx.keys_used \subseteq {req.json.openai_api_key}

\* a step of one handler invocation
HandlerStays == HandlerRuns /\ entry' = entry

\* each stage starts only where the previous one has returned
StagesInOrder ==
    HandlerStays =>
        /\ fx'.search > fx.search
             => /\ pc = "ready"
                /\ fx.search = 0 /\ fx.compose = 0 /\ fx.image_agent = 0
        /\ fx'.compose > fx.compose
             => /\ pc = "searched"
                /\ fx.search = 1 /\ loc.search_results # Unbound
                /\ fx.compose = 0 /\ fx.image_agent = 0
        /\ fx'.image_agent > fx.image_agent
             => /\ pc = "composed"
                /\ fx.compose = 1 /\ loc.post_content # Unbound
                /\ fx.image_agent = 0
        /\ (pc' = "scored" /\ pc # "scored")
             => /\ pc = "imaged"
                /\ loc.post_content # Unbound /\ loc.image_url # Unbound
        /\ (\/ fx'.li_adapter > fx.li_adapter
            \/ fx'.email_adapter > fx.email_adapter
            \/ fx'.smtp_sessions > fx.smtp_sessions
            \/ resp'.status = 200 /\ resp.status # 200
            \/ resp'.error \in {ErrNotCallable, ErrEmail} /\ resp.error = PyNone)
             => pc = "scored"

ImageCalls == fx.image_agent + fx.image_tool + fx.image_api

\* the image stage and the downloads run exactly when generate_image is
\* true; without it nothing delivered carries an image
ImageOnlyWhenAsked ==
    HandlerRuns =>
        /\ (ImageCalls > 0 \/ fx.downloads > 0) => FlagTrue("generate_image")
        /\ (pc \in {"imaged", "scored"} \/ Delivered)
             => (fx.image_agent = 1 <=> FlagTrue("generate_image"))
        /\ (Delivered /\ ~FlagTrue("generate_image"))
             => /\ loc.image_url = PyNone
                /\ loc.image_data = PyNone
                /\ resp.image_url = PyNone

\* C25: the handler runs Search, Compose, Image, Score, Deliver in that
\* order, each starting only after the previous one returned; the image
\* stage and any image download run if and only if generate_image is
\* true, and when it is false what is delivered carries no image and
\* image_url is null.
C25_StagesInOrder == [][StagesInOrder /\ ImageOnlyWhenAsked']_vars

\* an email delivered for a request without generate_image (False by
\* default, line 120)
C25_Witness ==
    /\ Delivered
    /\ PostWithJson
    /\ req.json.generate_image = Absent
    /\ fx.search = 1 /\ fx.compose = 1 /\ ImageCalls = 0 /\ fx.downloads = 0
    /\ fx.emails = 1
    /\ resp.status = 200
    /\ resp.image_url = PyNone

\* what has run after each stage
AfterSearch == fx.compose + ImageCalls + fx.downloads
AfterCompose == ImageCalls + fx.downloads
Deliveries ==
    fx.li_adapter + fx.li_requests + fx.li_posts
    + fx.email_adapter + fx.smtp_sessions + fx.emails

\* the handler has returned because a stage raised
StageFailed ==
    HandlerDone /\ fx.search = 1 /\ loc.image_url = Unbound

\* C26: within one request the search, compose and image agents are each
\* invoked at most once, and once a stage has failed no later stage and no
\* delivery adapter runs: the handler returns the failure envelope with
\* the failed stage's error text.
C26_NoRetryNoContinuation ==
    HandlerRuns =>
        /\ fx.search <= 1 /\ fx.compose <= 1 /\ fx.image_agent <= 1
        /\ StageFailed =>
             /\ ~resp.success
             /\ Deliveries = 0
             /\ resp.error \in {ErrSearch, ErrCompose, ErrImage}
             /\ resp.error = ErrSearch
                  <=> (loc.search_results = Unbound /\ AfterSearch = 0)
             /\ resp.error = ErrCompose
                  <=> /\ loc.search_results # Unbound
                      /\ fx.compose = 1 /\ loc.post_content = Unbound
                      /\ AfterCompose = 0
             /\ resp.error = ErrImage
                  <=> /\ loc.post_content # Unbound
                      /\ fx.image_agent = 1 /\ fx.downloads = 0

\* the compose stage failed after a successful search
C26_Witness ==
    /\ StageFailed
    /\ loc.search_results # Unbound
    /\ fx.compose = 1
    /\ resp.error = ErrCompose
    /\ Deliveries = 0

\* what the image agent gave in a direct call of generate_post_image
AgentGaveUrl == ret.agent.agent = "url"
AgentGaveInvalid == ret.agent.agent \in {"text", "empty"}
ToolGaveNoUrl == ret.agent.tool \in {"raise", "errtext"}

\* C27: in generate_post_image no direct tool call and no raw image API
\* call is made when the agent's output starts with 'http'; the direct
\* tool call is made only (and always) when the output is invalid and a
\* prompt was salvaged; the raw image API is called only when the output
\* is invalid and no prompt was salvaged or the tool call failed; each is
\* called at most once.
C27_FallbackLevels ==
    ImageDone =>
        /\ fx.image_agent = 1
        /\ fx.image_tool <= 1 /\ fx.image_api <= 1
        /\ AgentGaveUrl => (fx.image_tool = 0 /\ fx.image_api = 0)
        /\ fx.image_tool = 1 <=> (AgentGaveInvalid /\ ret.agent.salvaged)
        /\ fx.image_api = 1
             => /\ AgentGaveInvalid
                /\ ~ret.agent.salvaged \/ ToolGaveNoUrl
        /\ (AgentGaveInvalid /\ ~ret.agent.salvaged) => fx.image_api = 1

\* invalid output, salvaged prompt, the tool raises: all three levels ran
C27_Witness ==
    /\ ImageDone
    /\ AgentGaveInvalid
    /\ ret.agent.salvaged
    /\ ret.agent.tool = "raise"
    /\ fx.image_tool = 1
    /\ fx.image_api = 1
    /\ ret.kind = "return"

\* C28: whenever the direct tool call with a salvaged prompt does not
\* yield a valid URL, whether it raises or returns a non-'http' string,
\* generate_post_image then calls the raw image-generation API.
C28_ApiAfterFailedTool ==
    (ImageDone /\ fx.image_tool = 1 /\ ToolGaveNoUrl) => fx.image_api = 1

\* C29: when the compose agent's output is longer than the clamped
\* max_length, generate_linkedin_post returns its first clamped-max_length
\* characters, character for character, without running the agent again;
\* an output that is not longer is returned unchanged.
C29_HardTruncation ==
    (ComposeDone /\ ret.kind = "return") =>
        LET out == ret.agent.final_output.text
            bound == ClaimedBound(req.max_length)
        IN  /\ fx.compose = 1
            /\ fx.drivers = 1
            /\ Len(out) > bound
                 => /\ Len(ret.value) = bound
                    /\ \A i \in 1..bound : ret.value[i] = out[i]
            /\ Len(out) <= bound => ret.value = out

\* max_length 2000 and an output of 2001 characters
C29_Witness ==
    /\ ComposeDone
    /\ ret.kind = "return"
    /\ req.max_length = 2000
    /\ Len(ret.agent.final_output.text) = 2001
    /\ Len(ret.value) = 2000
    /\ fx.compose = 1

AdapterDone == entry = "post_to_linkedin" /\ pc = "done"

\* positions of the adapter's log: the image sub-steps that failed, the
\* IMAGE post requests, the text post requests
SubSteps == {"download", "register", "upload"}
FailedSubSteps ==
    { i \in 1..Len(ret.api.log) :
        /\ ret.api.log[i].call \in SubSteps
        /\ ret.api.log[i].answer \notin {"200", "ok"} }
ImagePosts ==
    { i \in 1..Len(ret.api.log) : ret.api.log[i].call = "ugcPosts IMAGE" }
TextPosts ==
    { i \in 1..Len(ret.api.log) : ret.api.log[i].call = "ugcPosts NONE" }
LastLogged == ret.api.log[Len(ret.api.log)]

\* C30: when the image download, the upload registration or the upload
\* fails, create_image_post requests no IMAGE post and goes on to
\* create_text_post; it returns that text post's result, and it raises
\* only when the text post itself (or the identity call it makes) failed.
\* An IMAGE post is requested only after all three sub-steps succeeded.
C30_NarrowsToTextPost ==
    AdapterDone =>
        /\ \A i \in FailedSubSteps :
             /\ ImagePosts = {}
             /\ i < Len(ret.api.log)
             /\ ret.api.log[i + 1].call \in {"ugcPosts NONE", "GET /me"}
             /\ ret.kind = "raise"
                  => /\ LastLogged.call \in {"ugcPosts NONE", "GET /me"}
                     /\ LastLogged.answer = "fail"
             /\ (TextPosts # {} /\ LastLogged.answer # "fail")
                  => /\ ret.kind = "return"
                     /\ LastLogged.call = "ugcPosts NONE"
                     /\ ret.api.result = LastLogged.answer
        /\ \A p \in ImagePosts :
             /\ p > 3
             /\ ret.api.log[p - 3] = [call |-> "download", answer |-> "200"]
             /\ ret.api.log[p - 2] = [call |-> "register", answer |-> "ok"]
             /\ ret.api.log[p - 1] = [call |-> "upload", answer |-> "ok"]

\* the upload raised; the text post was requested and its result returned
C30_Witness ==
    /\ AdapterDone
    /\ \E i \in FailedSubSteps :
         ret.api.log[i] = [call |-> "upload", answer |-> "raise"]
    /\ TextPosts # {}
    /\ ret.kind = "return"

\* the requests of the adapter's log that ask LinkedIn for a post
PostRequests == ImagePosts \cup TextPosts

\* the methods post_to_linkedin called that create a post
PostCalls ==
    { i \in 1..Len(ret.calls) :
        ret.calls[i] \in {"create_image_post", "create_text_post"} }

\* C31: post_to_linkedin first obtains the user identity, then calls
\* exactly one of create_image_post (image_url non-empty) and
\* create_text_post (image_url absent), then returns the post URL; when the
\* identity call fails no post is requested, and every failure leaves as
\* 'Failed to post to LinkedIn: ...'.
C31_IdentityThenOnePost ==
    AdapterDone =>
        /\ ret.calls[1] = "get_user_info"
        /\ ret.api.log[1].call = "GET /me"
        /\ ret.api.log[1].answer = "fail"
             => /\ ret.kind = "raise"
                /\ PostCalls = {}
                /\ PostRequests = {}
                /\ Len(ret.api.log) = 1
        /\ ret.api.log[1].answer # "fail"
             => /\ PostCalls = {2}
                /\ ret.calls[2] = IF req.image_url \in {PyNone, ""}
                                  THEN "create_text_post"
                                  ELSE "create_image_post"
        /\ req.image_url \in {PyNone, ""}
             => /\ ImagePosts = {}
                /\ \A i \in 1..Len(ret.api.log) :
                      ret.api.log[i].call \notin SubSteps
        /\ ret.kind = "return"
             => /\ ret.calls[Len(ret.calls)] = "get_post_url"
                /\ ret.api.posts = 1
                /\ LastLogged.call \in {"ugcPosts NONE", "ugcPosts IMAGE"}
                /\ LastLogged.answer # "fail"
                /\ LastLogged.answer = "id"
                     => ret.value =
                          "https://www.linkedin.com/feed/update/urn:li:share:1"
        /\ ret.kind = "raise"
             => /\ ret.value = "Failed to post to LinkedIn"
                /\ ret.api.posts = 0

\* the identity call failed: the call raised with nothing else requested
C31_Witness ==
    /\ AdapterDone
    /\ req.image_url = ImgUrl
    /\ ret.api.log = <<[call |-> "GET /me", answer |-> "fail"]>>
    /\ ret.kind = "raise"

\* C32: on the email channel with an image URL an image problem never
\* fails the email: the HTML body embeds the image inline as base64 exactly
\* when the download for the email answered 200 with content, and embeds a
\* link to the image URL otherwise; in both cases send_email is called, and
\* when it returns the request is answered 200.
C32_ImageInlineOrLink ==
    (Delivered /\ EmailRequestWithImage)
    => /\ fx.email_adapter = 1
       /\ loc.image_html \in {"inline", "link"}
       /\ loc.image_html = "inline" <=> loc.image_response = "200"
       /\ ret.kind = "return" => (resp.status = 200 /\ resp.success)

\* the download raised: the body carries the link and the email went out
C32_Witness ==
    /\ Delivered
    /\ EmailRequestWithImage
    /\ loc.image_url = ImgUrl
    /\ loc.image_response = "raise"
    /\ loc.image_html = "link"
    /\ fx.email_adapter = 1
    /\ resp.status = 200

\* the positions of a text where a whitespace-delimited token begins
WordStarts(t) ==
    { i \in 1..Len(t) :
        t[i] \notin {" ", "\n"} /\ (i = 1 \/ t[i - 1] \in {" ", "\n"}) }
WordCount(t) == Cardinality(WordStarts(t))

\* the report of analyze_engagement_potential lists the suggestion
Suggests(text) ==
    \E i \in 1..Len(ret.value.suggested_improvements) :
        ret.value.suggested_improvements[i] = text

\* the 'too short' and 'too long' rules of C33
LengthSuggestions ==
    AnalyzeDone =>
        /\ Suggests("Consider adding more content for better engagement")
             <=> WordCount(req.post_content) < 50
        /\ Suggests("Post might be too long for optimal engagement")
             <=> WordCount(req.post_content) > 500

\* C33: the suggestions follow three rules: 'too short' iff wordCount < 50,
\* 'too long' iff wordCount > 500, 'add hashtags' iff the text has no token
\* starting with '#'.
C33_SuggestionRules ==
    AnalyzeDone =>
        /\ Suggests("Consider adding more content for better engagement")
             <=> WordCount(req.post_content) < 50
        /\ Suggests("Post might be too long for optimal engagement")
             <=> WordCount(req.post_content) > 500
        /\ Suggests("Consider adding relevant hashtags")
             <=> HashTokenStarts(req.post_content) = {}

\* the texts whose score is compared with the one just computed: every
\* text for a long text, its own prefixes for a short one
Compared ==
    IF req.post_content \in LongTexts THEN Texts \cup LongTexts
    ELSE { SubSeq(req.post_content, 1, k) : k \in 0..Len(req.post_content) }

\* C34: engagement_score is wordCount / 30 held to [0, 100] (score30 is
\* the score times 30, so 100 is 3000): it is 0 for the empty text, never
\* negative, never above 100, equal to 100 exactly when wordCount >= 3000,
\* and of two texts the one with at least as many words never scores lower.
C34_ScoreClamped ==
    AnalyzeDone =>
        LET n == WordCount(req.post_content)
            score30 == ret.value.engagement_score30
        IN  /\ score30 = IF n < 3000 THEN n ELSE 3000
            /\ score30 >= 0
            /\ score30 <= 3000
            /\ Len(req.post_content) = 0 => score30 = 0
            /\ score30 = 3000 <=> n >= 3000
            /\ \A t \in Compared :
                  LET other == AnalyzeEngagementPotential(t).engagement_score30
                  IN  /\ WordCount(t) >= n => other >= score30
                      /\ WordCount(t) <= n => other <= score30

\* a text of 3001 words scores 100
C34_Witness ==
    /\ AnalyzeDone
    /\ WordCount(req.post_content) = 3001
    /\ ret.value.engagement_score30 = 3000

\* the calls send_email made on the SMTP server, the closing quit apart
SessionCalls ==
    SelectSeq(ret.session, LAMBDA c : c.call # "quit")

\* the positions of the session where quit was called
Quits == { i \in 1..Len(ret.session) : ret.session[i].call = "quit" }

\* the session made the call and it succeeded
Succeeded(call) ==
    \E i \in 1..Len(ret.session) :
        ret.session[i].call = call /\ ret.session[i].ok

\* the session made the call
Called(call) ==
    \E i \in 1..Len(ret.session) : ret.session[i].call = call

\* the protocol part of C35: the calls are a prefix of connect, ehlo,
\* starttls, ehlo, login, sendmail, each made only after the one before it
\* succeeded; and when the connection was opened quit is called exactly
\* once, as the last call
SessionProtocol ==
    SendEmailDone =>
        /\ Len(SessionCalls) \in 1..6
        /\ \A i \in 1..Len(SessionCalls) :
              /\ SessionCalls[i].call =
                    <<"connect smtp.gmail.com:587", "ehlo", "starttls",
                      "ehlo", "login", "sendmail">>[i]
              /\ i < Len(SessionCalls) => SessionCalls[i].ok
        /\ Called("sendmail") => Succeeded("login")
        /\ IF Succeeded("connect smtp.gmail.com:587")
           THEN Quits = {Len(ret.session)}
           ELSE Quits = {}

\* C35: send_email follows connect(smtp.gmail.com:587), ehlo, starttls,
\* ehlo, login, sendmail in that order; sendmail is never called unless
\* login succeeded; an authentication failure makes send_email return False
\* without sending; and whenever the connection was opened quit is called
\* exactly once, on success and on every failure path.
C35_SmtpProtocol ==
    /\ SessionProtocol
    /\ (SendEmailDone /\ Called("login") /\ ~Succeeded("login"))
         => /\ ret.kind = "return"
            /\ ret.value = "false"
            /\ ~Called("sendmail")
            /\ fx.emails = 0

\* C36: send_email reports its outcome through its return value only: it
\* returns True when the email was sent and False otherwise, and no SMTP
\* failure (connection, STARTTLS, authentication, send, closing the
\* connection) makes it raise.
C36_NeverRaises ==
    SendEmailDone =>
        /\ ret.kind = "return"
        /\ ret.value \in {"true", "false"}
        /\ ret.value = "true" <=> (Called("sendmail") /\ Succeeded("sendmail"))

\* post_to_linkedin called create_image_post (once: see PostCalls)
ImagePostCalled ==
    AdapterDone /\ \E i \in PostCalls : ret.calls[i] = "create_image_post"

\* C37: one call of create_image_post invokes create_text_post at most
\* once, so at most one text-only post is requested, and a fallback text
\* post that fails is not tried again.
C37_OneTextAttempt ==
    ImagePostCalled =>
        /\ ret.api.text_calls <= 1
        /\ Cardinality(TextPosts) <= 1

\* the answers of GET /me that carried an id
IdentityAnswers ==
    { i \in 1..Len(ret.api.log) :
        ret.api.log[i] = [call |-> "GET /me", answer |-> "id"] }

\* C38: every ugcPosts request names a resolved author: a non-empty id
\* that get_user_info obtained before the request; when no identity
\* response carried an id, no post request is sent.
C38_ResolvedAuthor ==
    AdapterDone =>
        /\ Len(ret.api.authors) = Cardinality(PostRequests)
        /\ \A i \in 1..Len(ret.api.authors) :
              ret.api.authors[i] \notin {PyNone, ""}
        /\ \A p \in PostRequests : \E i \in IdentityAnswers : i < p
        /\ IdentityAnswers = {} => PostRequests = {}

\* the three entries of the report of analyze_engagement_potential
ReportKeys ==
    {"engagement_score30", "suggested_improvements", "hashtag_suggestions"}

\* C39: in every success envelope engagement_analysis carries the report
\* that analyze_engagement_potential computed for post_content: the same
\* engagement score, suggestions and hashtags, none dropped by formatting.
C39_ReportInEnvelope ==
    (HandlerDone /\ resp.success)
    => /\ DOMAIN loc.engagement_analysis = ReportKeys
       /\ loc.engagement_analysis.engagement_score30 = WordCount(PostChars)
       /\ ReportKeys \subseteq DOMAIN resp.engagement_analysis
       /\ \A k \in ReportKeys :
             resp.engagement_analysis[k] = loc.engagement_analysis[k]

\* the messages of the image agent run have been scanned
ScanDone ==
    /\ entry = "generate_post_image"
    /\ pc = "scanned"
    /\ ret.final_output \in {"text", "empty"}

\* the positions <<message, line>> of the lines a prompt can be taken from:
\* longer than 40 characters, no ':' among the first 10, not starting with
\* "generate_linkedin_image"
QualifyingLines ==
    { <<m, i>> \in (1..Len(ret.messages)) \X (1..MaxScanned) :
        /\ i <= Len(ret.messages[m])
        /\ ret.messages[m][i].length > 40
        /\ ret.messages[m][i].colon_at \notin 1..10
        /\ ~ret.messages[m][i].echo }

\* the first qualifying line of the first message that has one
FirstQualifying ==
    CHOOSE p \in QualifyingLines :
        \A q \in QualifyingLines :
            p[1] < q[1] \/ (p[1] = q[1] /\ p[2] <= q[2])

\* C40: the salvage scan stops at the first qualifying line: a prompt is
\* salvaged iff some message has a qualifying line, and the prompt is the
\* first such line of the first message that has one; later messages do
\* not override it.
C40_FirstQualifyingLine ==
    ScanDone =>
        /\ ret.prompt_text # NoPrompt <=> QualifyingLines # {}
        /\ QualifyingLines # {}
             => ret.prompt_text =
                  ret.messages[FirstQualifying[1]][FirstQualifying[2]]

\* the first part of C40 alone: a prompt is salvaged iff some message has a
\* qualifying line, and it is a qualifying line
SalvagedIffQualifying ==
    ScanDone =>
        /\ ret.prompt_text # NoPrompt <=> QualifyingLines # {}
        /\ QualifyingLines # {}
             => \E p \in QualifyingLines :
                   ret.prompt_text = ret.messages[p[1]][p[2]]

====
